---- MODULE Spec2Model ----
(***************************************************************************)
(* A model of the plumbing commands of the JavaScript Git client:          *)
(* hash-object, write-tree, commit-tree and the upload-pack request        *)
(* builders of clone.                                                      *)
(*                                                                         *)
(* A Buffer and a JavaScript string are both a sequence of bytes 0..255.   *)
(* A path is a sequence of path components, relative to process.cwd();     *)
(* each component is a byte string.  The file system is a function from    *)
(* paths to nodes.  An optional JavaScript value is <<>> (undefined) or    *)
(* <<v>>.                                                                  *)
(***************************************************************************)
EXTENDS Integers, Sequences, FiniteSets, TLC

VARIABLES fs, stdout, last, now, commits, request, clone, probe

vars == <<fs, stdout, last, now, commits, request, clone, probe>>

(***************************************************************************)
(* Bounds of the model.                                                     *)
(***************************************************************************)
MaxLen == 2      \* longest file content, in bytes
MaxClock == 2    \* latest value of the millisecond clock
MaxCommits == 2  \* commit-tree runs remembered
MaxWant == 5     \* longest byte string whose sha clone is made to want

(***************************************************************************)
(* String literals of the source, as bytes.                                *)
(***************************************************************************)
S_blob == <<98, 108, 111, 98, 32>>
S_tree == <<116, 114, 101, 101, 32>>
S_commit == <<99, 111, 109, 109, 105, 116, 32>>
S_parent == <<112, 97, 114, 101, 110, 116, 32>>
S_undefined == <<117, 110, 100, 101, 102, 105, 110, 101, 100>>
S_author == <<97, 117, 116, 104, 111, 114, 32, 80, 114, 105, 121, 97, 110, 115, 104, 117, 32, 78, 97, 105, 107, 32, 60, 112, 114, 105, 121, 97, 110, 115, 104, 117, 110, 97, 105, 107, 64, 80, 114, 105, 121, 97, 110, 115, 104, 117, 115, 45, 77, 97, 99, 66, 111, 111, 107, 45, 65, 105, 114, 46, 108, 111, 99, 97, 108, 62, 32>>
S_committer == <<99, 111, 109, 109, 105, 116, 116, 101, 114, 32, 80, 114, 105, 121, 97, 110, 115, 104, 117, 32, 78, 97, 105, 107, 32, 60, 112, 114, 105, 121, 97, 110, 115, 104, 117, 110, 97, 105, 107, 64, 80, 114, 105, 121, 97, 110, 115, 104, 117, 115, 45, 77, 97, 99, 66, 111, 111, 107, 45, 65, 105, 114, 46, 108, 111, 99, 97, 108, 62, 32>>
S_tz == <<32, 43, 48, 48, 48, 48, 10>>
S_dotgit == <<46, 103, 105, 116>>
S_object == <<111, 98, 106, 101, 99, 116>>
S_objects == <<111, 98, 106, 101, 99, 116, 115>>
S_w == <<45, 119>>
S_want == <<119, 97, 110, 116, 32>>
S_0032want == <<48, 48, 51, 50, 119, 97, 110, 116, 32>>
S_caps1 == <<32, 109, 117, 108, 116, 105, 95, 97, 99, 107, 95, 100, 101, 116, 97, 105, 108, 101, 100, 32, 115, 105, 100, 101, 45, 98, 97, 110, 100, 45, 54, 52, 107, 32, 116, 104, 105, 110, 45, 112, 97, 99, 107, 32, 111, 102, 115, 45, 100, 101, 108, 116, 97, 32, 97, 103, 101, 110, 116, 61, 103, 105, 116, 47, 49, 46, 48, 10>>
S_caps2 == <<32, 115, 105, 100, 101, 45, 98, 97, 110, 100, 45, 54, 52, 107, 32, 111, 102, 115, 45, 100, 101, 108, 116, 97, 32, 97, 103, 101, 110, 116, 61, 103, 105, 116, 47, 49, 46, 48, 10>>
S_done == <<100, 111, 110, 101, 10>>
S_00000009done == <<48, 48, 48, 48, 48, 48, 48, 57, 100, 111, 110, 101, 10>>
S_0000 == <<48, 48, 48, 48>>

(***************************************************************************)
(* Inputs: names and texts the commands are run on.                        *)
(***************************************************************************)
N_a_txt == <<97, 46, 116, 120, 116>>
N_gitignore == <<46, 103, 105, 116, 105, 103, 110, 111, 114, 101>>
N_sub == <<115, 117, 98>>
N_b_txt == <<98, 46, 116, 120, 116>>
N_missing == <<110, 111, 112, 101, 46, 116, 120, 116>>
F_t == <<45, 116>>
M_init == <<105, 110, 105, 116>>

\* File contents: every byte string over {NUL, 'a'} of at most MaxLen bytes.
RECURSIVE BytesUpTo(_)
BytesUpTo(n) ==
    IF n = 0 THEN {<<>>}
    ELSE LET shorter == BytesUpTo(n - 1)
         IN  shorter \cup {Append(s, c) : s \in shorter, c \in {0, 97}}

Contents == BytesUpTo(MaxLen)

(***************************************************************************)
(* Primitives of the runtime.                                               *)
(***************************************************************************)
\* Number.prototype.toString(10), as used by a template string.
RECURSIVE toDecimal(_)
toDecimal(n) ==
    IF n < 10 THEN <<48 + n>> ELSE toDecimal(n \div 10) \o <<48 + (n % 10)>>

hexDigit(d) == IF d < 10 THEN 48 + d ELSE 87 + d

\* Number.prototype.toString(16)
RECURSIVE toHex(_)
toHex(n) ==
    IF n < 16 THEN <<hexDigit(n)>> ELSE toHex(n \div 16) \o <<hexDigit(n % 16)>>

\* String.prototype.padStart(width, "0")
RECURSIVE padStart(_, _)
padStart(s, width) == IF Len(s) >= width THEN s ELSE padStart(<<48>> \o s, width)

\* The sum of weight(i) * (data[i] + offset) over i in lo..hi, by halving.
RECURSIVE weightedSum(_, _, _, _, _)
weightedSum(data, power, offset, lo, hi) ==
    IF lo > hi THEN 0
    ELSE IF lo = hi THEN (lo ^ power) * (data[lo] + offset)
    ELSE LET mid == (lo + hi) \div 2
         IN  weightedSum(data, power, offset, lo, mid)
                 + weightedSum(data, power, offset, mid + 1, hi)

\* crypto.createHash("sha1").update(data).digest("hex"): 40 lowercase hex
\* characters.  SHA-1 is a primitive outside the repository; it is modelled
\* by a digest that is a function of the bytes alone and that separates the
\* byte strings of the model.
digest(data) ==
    LET n == Len(data)
        s0 == weightedSum(data, 0, 1, 1, n)
        s1 == weightedSum(data, 1, 1, 1, n)
        s2 == weightedSum(data, 2, 1, 1, n)
    IN  (s0 * 3 + (s1 % 100003) * 5 + (s2 % 100003) * 7 + n) % 1048573

sha1hex(data) ==
    LET hex(h) == [i \in 1..40 |-> hexDigit((h \div (16 ^ ((i - 1) % 5))) % 16)]
    IN  hex(digest(data))

\* The Adler-32 checksum that ends a zlib stream: a is 1 plus the sum of the
\* bytes, b the sum of the successive values of a, both modulo 65521.
adler(data) ==
    LET n == Len(data)
        a == (1 + weightedSum(data, 0, 0, 1, n)) % 65521
        b == (n + (n + 1) * weightedSum(data, 0, 0, 1, n)
                - weightedSum(data, 1, 0, 1, n)) % 65521
    IN  <<b \div 256, b % 256, a \div 256, a % 256>>

\* zlib.deflateSync(data): a zlib stream (header 78 9c), here with the data
\* in one stored block (final-block byte, LEN, NLEN), then the checksum.
deflateSync(data) ==
    LET n == Len(data)
    IN  <<120, 156, 1, n % 256, n \div 256, 255 - (n % 256), 255 - (n \div 256)>>
            \o data \o adler(data)

\* zlib.inflateSync(z): the data of the stream z starts with, whatever follows
\* the stream being ignored; Z_BUF_ERROR ("unexpected end of file") when z
\* ends before the stream does, Z_DATA_ERROR when a byte of z is not what a
\* stream has there.
inflateSync(z) ==
    LET n == z[4] + 256 * z[5]
        data == SubSeq(z, 8, 7 + n)
        bad(i, v) == Len(z) >= i /\ z[i] # v
    IN  IF bad(1, 120) \/ bad(2, 156) \/ bad(3, 1)
        THEN [ok |-> FALSE, data |-> <<>>, code |-> "Z_DATA_ERROR"]
        ELSE IF Len(z) < 7
        THEN [ok |-> FALSE, data |-> <<>>, code |-> "Z_BUF_ERROR"]
        ELSE IF z[6] # 255 - z[4] \/ z[7] # 255 - z[5]
        THEN [ok |-> FALSE, data |-> <<>>, code |-> "Z_DATA_ERROR"]
        ELSE IF Len(z) < n + 11
        THEN [ok |-> FALSE, data |-> <<>>, code |-> "Z_BUF_ERROR"]
        ELSE IF SubSeq(z, 8 + n, 11 + n) # adler(data)
        THEN [ok |-> FALSE, data |-> <<>>, code |-> "Z_DATA_ERROR"]
        ELSE [ok |-> TRUE, data |-> data, code |-> "none"]

(***************************************************************************)
(* The file system.                                                         *)
(***************************************************************************)
Dir == [kind |-> "dir", data |-> <<>>]
File(data) == [kind |-> "file", data |-> data]

parent(p) == SubSeq(p, 1, Len(p) - 1)

\* fs.existsSync(p) on the tree t
existsSync(t, p) == p \in DOMAIN t

isDirectory(t, p) == p \in DOMAIN t /\ t[p].kind = "dir"

\* The result of a call that may throw: the tree afterwards and the error.
Ok(t) == [fs |-> t, err |-> "none"]
Throw(t, e) == [fs |-> t, err |-> e]

\* fs.mkdirSync(p), not recursive
mkdirSync(t, p) ==
    IF p \in DOMAIN t THEN Throw(t, "EEXIST")
    ELSE IF ~existsSync(t, parent(p)) THEN Throw(t, "ENOENT")
    ELSE IF ~isDirectory(t, parent(p)) THEN Throw(t, "ENOTDIR")
    ELSE Ok((p :> Dir) @@ t)

\* fs.writeFileSync(p, data)
writeFileSync(t, p, data) ==
    IF isDirectory(t, p) THEN Throw(t, "EISDIR")
    ELSE IF ~existsSync(t, parent(p)) THEN Throw(t, "ENOENT")
    ELSE IF ~isDirectory(t, parent(p)) THEN Throw(t, "ENOTDIR")
    ELSE Ok((p :> File(data)) @@ t)

(***************************************************************************)
(* hash-object                                                              *)
(***************************************************************************)
\* The outcome of a command: the tree, what it wrote to stdout, its error.
Outcome(t, out, e) == [fs |-> t, out |-> out, err |-> e]

\* The directory hash-object -w writes under.
HashObjectFolderPath(folder) == <<S_dotgit, S_object, folder>>

\* A variant that writes whenever a flag is given, whatever the flag.
HashObjectWritesAnyFlag(flag) == flag # <<>>

\* if(this.flag && this.flag === '-w')
HashObjectWrites(flag) == flag # <<>> /\ flag[1] = S_w

\* HashObjectCommand.execute()
HashObjectExecute(t, flag, filepath) ==
    LET p == <<filepath>>
    IN  IF ~existsSync(t, p) THEN Outcome(t, <<>>, "could not open")
        ELSE IF isDirectory(t, p) THEN Outcome(t, <<>>, "EISDIR")
        ELSE
        LET fileContents == t[p].data
            fileLength == Len(fileContents)
            header == S_blob \o toDecimal(fileLength) \o <<0>>
            blob == header \o fileContents
            hash == sha1hex(blob)
        IN  IF HashObjectWrites(flag)
            THEN LET folder == SubSeq(hash, 1, 2)
                     file == SubSeq(hash, 3, 40)
                     completeFolderPath == HashObjectFolderPath(folder)
                     made == IF ~existsSync(t, completeFolderPath)
                             THEN mkdirSync(t, completeFolderPath)
                             ELSE Ok(t)
                     compressData == deflateSync(blob)
                     written == writeFileSync(made.fs, Append(completeFolderPath, file),
                                              compressData)
                 IN  IF made.err # "none" THEN Outcome(made.fs, <<>>, made.err)
                     ELSE IF written.err # "none"
                          THEN Outcome(written.fs, <<>>, written.err)
                     ELSE Outcome(written.fs, hash, "none")
            ELSE Outcome(t, hash, "none")

(***************************************************************************)
(* write-tree                                                               *)
(***************************************************************************)
\* fs.readFileSync(p), which recursiveCreateTree calls on a directory: Node
\* throws EISDIR there, or on some platforms returns the directory's raw
\* bytes as a Buffer.  On a file it returns the file's bytes.
readFileSync(t, p, raw) ==
    IF ~existsSync(t, p) THEN [err |-> "ENOENT", data |-> <<>>]
    ELSE IF isDirectory(t, p)
         THEN IF raw = <<>> THEN [err |-> "EISDIR", data |-> <<>>]
              ELSE [err |-> "none", data |-> raw[1]]
    ELSE [err |-> "none", data |-> t[p].data]

\* recursiveCreateTree(basePath): the sha of the tree written, <<>> for null.
\* The loop runs over the elements of the Buffer readFileSync returned, which
\* are numbers: the first one fails at dirContent.includes(".git").
recursiveCreateTree(t, basePath, raw) ==
    LET dirContents == readFileSync(t, basePath, raw)
    IN  IF dirContents.err # "none" THEN [fs |-> t, sha |-> <<>>, err |-> dirContents.err]
        ELSE IF Len(dirContents.data) > 0
             THEN [fs |-> t, sha |-> <<>>, err |-> "TypeError: dirContent.includes"]
        ELSE [fs |-> t, sha |-> <<>>, err |-> "none"]

\* WriteTreeCommand.execute()
WriteTreeExecute(t, raw) ==
    LET r == recursiveCreateTree(t, <<>>, raw)
    IN  IF r.err # "none" THEN Outcome(r.fs, <<>>, r.err)
        ELSE IF r.sha = <<>>
             THEN Outcome(r.fs, <<>>, "TypeError: stdout.write(null)")
        ELSE Outcome(r.fs, r.sha[1], "none")

(***************************************************************************)
(* commit-tree                                                              *)
(***************************************************************************)
\* `${value}` of an optional value
template(v) == IF v = <<>> THEN S_undefined ELSE v[1]

\* The parent line of the commit content.
CommitParentLine(parentSHA) == S_parent \o template(parentSHA) \o <<10>>

\* The two Date.now() readings of one run, as a template string renders them.
CommitTimestamps(t1, t2) == <<toDecimal(t1), toDecimal(t2)>>

\* commitContentBuffer of CommitTreeCommand.execute()
commitContentBuffer(treeSHA, parentSHA, message, t1, t2) ==
    LET ts == CommitTimestamps(t1, t2)
    IN  S_tree \o template(treeSHA) \o <<10>>
        \o CommitParentLine(parentSHA)
        \o S_author \o ts[1] \o S_tz
        \o S_committer \o ts[2] \o S_tz \o <<10>>
        \o template(message) \o <<10>>

\* CommitTreeCommand.execute(), with the clock read t1 and then t2
CommitTreeExecute(t, treeSHA, parentSHA, message, t1, t2) ==
    LET content == commitContentBuffer(treeSHA, parentSHA, message, t1, t2)
        commitHeader == S_commit \o toDecimal(Len(content)) \o <<0>>
        data == commitHeader \o content
        hash == sha1hex(data)
        folder == SubSeq(hash, 1, 2)
        file == SubSeq(hash, 3, 40)
        completeFolderPath == <<S_dotgit, S_objects, folder>>
        made == IF ~existsSync(t, completeFolderPath)
                THEN mkdirSync(t, completeFolderPath)
                ELSE Ok(t)
        written == writeFileSync(made.fs, Append(completeFolderPath, file),
                                 deflateSync(data))
    IN  IF made.err # "none" THEN Outcome(made.fs, <<>>, made.err)
        ELSE IF written.err # "none" THEN Outcome(written.fs, <<>>, written.err)
        ELSE Outcome(written.fs, hash, "none")

(***************************************************************************)
(* clone: the upload-pack request                                           *)
(***************************************************************************)
\* pkt of clone.js, first CloneCommand
pkt(s) == IF Len(s) # 0 THEN padStart(toHex(Len(s) + 4), 4) \o s ELSE S_0000

\* buildUploadPackRequest of clone.js, first CloneCommand
buildUploadPackRequestNested(sha) ==
    pkt(S_0032want \o sha \o S_caps1) \o pkt(S_00000009done)

\* buildUploadPackRequest of clone.js, second CloneCommand
buildUploadPackRequestThin(sha) ==
    pkt(S_want \o sha \o S_caps1) \o pkt(<<>>) \o pkt(S_done)

\* pktLine of the CloneCommand with checkout
pktLine(s) == IF s # <<>> THEN padStart(toHex(Len(s) + 4), 4) \o s ELSE S_0000

\* buildUploadPackRequest of the CloneCommand with checkout
buildUploadPackRequest(sha) ==
    pktLine(S_want \o sha \o S_caps2) \o pktLine(<<>>) \o pktLine(S_done)

\* parseGitObject(objectBuffer) of the CloneCommand with checkout
RECURSIVE indexOf(_, _, _)
indexOf(buf, b, from) ==
    IF from > Len(buf) THEN 0
    ELSE IF buf[from] = b THEN from
    ELSE LET mid == (from + Len(buf)) \div 2
             found(left) == IF left # 0 THEN left ELSE indexOf(buf, b, mid + 1)
         IN  found(indexOf(SubSeq(buf, 1, mid), b, from + 1))

\* parseInt(s): the value of the leading decimal digits, -1 for NaN
RECURSIVE parseDigits(_, _, _)
parseDigits(s, i, acc) ==
    IF i > Len(s) \/ s[i] < 48 \/ s[i] > 57 THEN acc
    ELSE parseDigits(s, i + 1, acc * 10 + (s[i] - 48))

parseInt(s) ==
    IF s = <<>> \/ s[1] < 48 \/ s[1] > 57 THEN 0 - 1 ELSE parseDigits(s, 1, 0)

parseGitObject(objectBuffer) ==
    LET nullIndex == indexOf(objectBuffer, 0, 1)
    IN  IF nullIndex = 0
        THEN [err |-> "Invalid Git object format", type |-> <<>>, size |-> 0 - 1,
              content |-> <<>>]
        ELSE LET header == SubSeq(objectBuffer, 1, nullIndex - 1)
                 content == SubSeq(objectBuffer, nullIndex + 1, Len(objectBuffer))
                 sp == indexOf(header, 32, 1)
                 type == IF sp = 0 THEN header ELSE SubSeq(header, 1, sp - 1)
                 rest == IF sp = 0 THEN <<>> ELSE SubSeq(header, sp + 1, Len(header))
                 sp2 == indexOf(rest, 32, 1)
                 size == IF sp2 = 0 THEN rest ELSE SubSeq(rest, 1, sp2 - 1)
             IN  [err |-> "none", type |-> type, size |-> parseInt(size),
                  content |-> content]

(***************************************************************************)
(* The state machine.                                                       *)
(***************************************************************************)
\* clone has not been started.
NoClone == [pc |-> "none"]

NoCommand == [cmd |-> "none", args |-> <<>>, err |-> "none"]

\* The working directories the commands are run in: a repository skeleton
\* and optionally a file a.txt, a file .gitignore, a subdirectory (empty or
\* holding b.txt) and a directory .git/object.
Skeleton ==
    (<<>> :> Dir) @@ (<<S_dotgit>> :> Dir) @@ (<<S_dotgit, S_objects>> :> Dir)

WorkingTrees ==
    { Skeleton @@ a @@ ign @@ sub @@ obj :
        a \in {<<>>} \cup {(<<N_a_txt>> :> File(c)) : c \in Contents},
        ign \in {<<>>, (<<N_gitignore>> :> File(<<97>>))},
        sub \in {<<>>, (<<N_sub>> :> Dir),
                 (<<N_sub>> :> Dir) @@ (<<N_sub, N_b_txt>> :> File(<<97>>))},
        obj \in {<<>>, (<<S_dotgit, S_object>> :> Dir)} }

Init ==
    /\ fs \in WorkingTrees
    /\ stdout = <<>>
    /\ last = NoCommand
    /\ now = 0
    /\ commits = {}
    /\ request = <<>>
    /\ clone = NoClone
    /\ probe = <<>>

Flags == {<<>>, <<S_w>>, <<F_t>>}
FilePaths == {N_a_txt, N_gitignore, N_sub, N_missing}

\* hash-object <flag> <filepath>
HashObject ==
    \E flag \in Flags, filepath \in FilePaths :
        LET r == HashObjectExecute(fs, flag, filepath)
        IN  /\ fs' = r.fs
            /\ stdout' = r.out
            /\ last' = [cmd |-> "hash-object", args |-> <<flag, <<filepath>>>>,
                        err |-> r.err]
            /\ UNCHANGED <<now, commits, request, clone, probe>>

\* What fs.readFileSync may return for a directory: <<>> for the EISDIR
\* error, <<data>> for a Buffer of raw bytes.
RawReads == {<<>>, <<<<>>>>, <<<<1>>>>}

\* write-tree
WriteTree ==
    \E raw \in RawReads :
        LET r == WriteTreeExecute(fs, raw)
        IN  /\ fs' = r.fs
            /\ stdout' = r.out
            /\ last' = [cmd |-> "write-tree", args |-> <<raw>>, err |-> r.err]
            /\ UNCHANGED <<now, commits, request, clone, probe>>

\* The shas and the message commit-tree is given.
TreeSHA == sha1hex(S_tree \o <<48, 0>>)
ParentSHA == sha1hex(S_commit \o <<48, 0>>)
Parents == {<<>>, <<ParentSHA>>}

\* The millisecond clock advances.
Tick ==
    /\ now < MaxClock
    /\ now' = now + 1
    /\ UNCHANGED <<fs, stdout, last, commits, request, clone, probe>>

\* commit-tree <tree> [-p <parent>] -m <message>; the clock may advance
\* between the two Date.now() calls of one run.
CommitTree ==
    \E parentSHA \in Parents, t2 \in {now, now + 1} :
        /\ t2 <= MaxClock
        /\ LET r == CommitTreeExecute(fs, <<TreeSHA>>, parentSHA, <<M_init>>, now, t2)
               run == [parent |-> parentSHA, err |-> r.err, sha |-> r.out,
                       content |-> commitContentBuffer(<<TreeSHA>>, parentSHA,
                                                       <<M_init>>, now, t2)]
           IN  /\ Cardinality(commits \cup {run}) <= MaxCommits
               /\ fs' = r.fs
               /\ stdout' = r.out
               /\ commits' = commits \cup {run}
               /\ last' = [cmd |-> "commit-tree", args |-> <<parentSHA>>,
                           err |-> r.err]
        /\ now' = t2
        /\ UNCHANGED <<request, clone, probe>>

\* clone builds the body of its upload-pack request for the advertised sha.
Builders == {"nested", "thin", "checkout"}
WantSHAs == {sha1hex(c) : c \in BytesUpTo(MaxWant)}

BuildRequest ==
    \E impl \in Builders, sha \in WantSHAs :
        /\ request' = <<[impl |-> impl, sha |-> sha,
                         body |-> CASE impl = "nested" -> buildUploadPackRequestNested(sha)
                                    [] impl = "thin" -> buildUploadPackRequestThin(sha)
                                    [] OTHER -> buildUploadPackRequest(sha)]>>
        /\ last' = [cmd |-> "clone", args |-> <<>>, err |-> "none"]
        /\ stdout' = <<>>
        /\ UNCHANGED <<fs, now, commits, clone, probe>>

\* Every command, in any order.
Next == HashObject \/ WriteTree \/ Tick \/ CommitTree \/ BuildRequest

Spec == Init /\ [][Next]_vars

\* hash-object alone, run any number of times in one working directory.
SpecHashObject == Init /\ [][HashObject]_vars

\* write-tree alone.
SpecWriteTree == Init /\ [][WriteTree]_vars

\* commit-tree alone, in a repository or outside one, as the clock advances.
InitCommitTree ==
    /\ fs \in {Skeleton, (<<>> :> Dir)}
    /\ stdout = <<>>
    /\ last = NoCommand
    /\ now = 0
    /\ commits = {}
    /\ request = <<>>
    /\ clone = NoClone
    /\ probe = <<>>

SpecCommitTree == InitCommitTree /\ [][Tick \/ CommitTree]_vars

\* The request builders of clone alone.
InitClone ==
    /\ fs = (<<>> :> Dir)
    /\ stdout = <<>>
    /\ last = NoCommand
    /\ now = 0
    /\ commits = {}
    /\ request = <<>>
    /\ clone = NoClone
    /\ probe = <<>>

SpecClone == InitClone /\ [][BuildRequest]_vars

(***************************************************************************)
(* The object store as the specification describes it.                      *)
(***************************************************************************)
\* The canonical encoding of a blob: blob SP <decimal length> NUL <payload>
CanonicalBlob(b) == S_blob \o toDecimal(Len(b)) \o <<0>> \o b

\* The fan-out path of a loose object: .git/objects/<sha[0..2]>/<sha[2..]>
LoosePath(sha) == <<S_dotgit, S_objects, SubSeq(sha, 1, 2), SubSeq(sha, 3, Len(sha))>>

\* The last command was a hash-object -w that succeeded.
HashObjectWrote ==
    /\ last.cmd = "hash-object"
    /\ last.err = "none"
    /\ last.args[1] = <<S_w>>

\* The content of the file the last hash-object was run on.
HashedContent == fs[last.args[2]].data

(***************************************************************************)
(* hash-object                                                              *)
(***************************************************************************)
\* C1: after hash-object -w succeeds, the loose object file exists at
\* .git/objects/<sha[0..2]>/<sha[2..]>, where sha is the printed identity of
\* the canonical encoding blob <len> NUL <content>, and the file holds the
\* zlib deflation of that encoding.
C1_LooseObjectAtFanOutPath ==
    HashObjectWrote =>
        LET canonical == CanonicalBlob(HashedContent)
            sha == sha1hex(canonical)
        IN  /\ stdout = sha
            /\ LoosePath(sha) \in DOMAIN fs
            /\ fs[LoosePath(sha)] = File(deflateSync(canonical))

\* C2: reading back, under .git/objects/ by the printed sha, the object that
\* hash-object -w wrote (inflate, split the header at the first NUL) yields
\* type blob, the declared size len(b) and the payload b.
C2_BlobRoundTrip ==
    HashObjectWrote =>
        /\ LoosePath(stdout) \in DOMAIN fs
        /\ LET z == inflateSync(fs[LoosePath(stdout)].data)
               o == parseGitObject(z.data)
           IN  /\ z.ok
               /\ o.err = "none"
               /\ o.type = SubSeq(S_blob, 1, 4)
               /\ o.size = Len(HashedContent)
               /\ o.content = HashedContent

\* C3: hash-object without -w, or with another flag, leaves the file system
\* unchanged, and when it succeeds it prints the sha of the canonical
\* encoding of the file, the same sha -w prints for that file.
C3_NoWriteWithoutW ==
    [][(last'.cmd = "hash-object" /\ last'.args[1] # <<S_w>>) =>
          /\ fs' = fs
          /\ last'.err = "none" =>
                LET withW == HashObjectExecute(fs, <<S_w>>, last'.args[2][1])
                IN  /\ stdout' = sha1hex(CanonicalBlob(fs[last'.args[2]].data))
                    /\ withW.err = "none" => stdout' = withW.out]_vars

\* hash-object -t has printed a sha in a directory where -w can write.
C3_Witness ==
    /\ last.cmd = "hash-object"
    /\ last.args[1] = <<F_t>>
    /\ last.err = "none"
    /\ Len(stdout) = 40
    /\ <<S_dotgit, S_object>> \in DOMAIN fs

(***************************************************************************)
(* write-tree                                                               *)
(***************************************************************************)
\* The loose objects of the store, parsed.
StorePaths ==
    {p \in DOMAIN fs : /\ Len(p) = 4
                       /\ p[1] = S_dotgit
                       /\ p[2] = S_objects
                       /\ fs[p].kind = "file"}

StoredObject(p) == parseGitObject(inflateSync(fs[p].data).data)

StoredTrees ==
    {StoredObject(p).content : p \in {q \in StorePaths :
                                         StoredObject(q).type = SubSeq(S_tree, 1, 4)}}

\* The entries <mode> SP <name> NUL <20-byte sha> of a tree payload.
RECURSIVE TreeEntries(_)
TreeEntries(content) ==
    LET sp == indexOf(content, 32, 1)
        nul == indexOf(content, 0, 1)
    IN  IF content = <<>> \/ sp = 0 \/ nul = 0 \/ Len(content) < nul + 20 THEN <<>>
        ELSE <<[mode |-> SubSeq(content, 1, sp - 1),
                name |-> SubSeq(content, sp + 1, nul - 1),
                sha |-> SubSeq(content, nul + 1, nul + 20)]>>
             \o TreeEntries(SubSeq(content, nul + 21, Len(content)))

\* Byte order on names.
RECURSIVE ByteLess(_, _)
ByteLess(a, b) ==
    IF b = <<>> THEN FALSE
    ELSE IF a = <<>> THEN TRUE
    ELSE IF Head(a) # Head(b) THEN Head(a) < Head(b)
    ELSE ByteLess(Tail(a), Tail(b))

\* The name an entry is compared by: a directory's name with a trailing /.
EffectiveName(e) ==
    IF e.mode = <<52, 48, 48, 48, 48>> THEN Append(e.name, 47) ELSE e.name

StrictlySorted(entries) ==
    \A i \in 1..(Len(entries) - 1) :
        ByteLess(EffectiveName(entries[i]), EffectiveName(entries[i + 1]))

\* 20 binary bytes as 40 hex characters.
HexOf(bin) ==
    [i \in 1..(2 * Len(bin)) |->
        IF i % 2 = 1 THEN hexDigit(bin[(i + 1) \div 2] \div 16)
        ELSE hexDigit(bin[i \div 2] % 16)]

\* The names in the working directory, and those write-tree has to record:
\* the regular files and the directories that are not empty, .git excepted.
RootNames == {p[1] : p \in {q \in DOMAIN fs : Len(q) = 1}}

NonEmptyDir(name) ==
    /\ isDirectory(fs, <<name>>)
    /\ \E q \in DOMAIN fs : Len(q) = 2 /\ q[1] = name

Recorded(name) ==
    /\ name # S_dotgit
    /\ ~isDirectory(fs, <<name>>) \/ NonEmptyDir(name)

WriteTreeRan == last.cmd = "write-tree"

\* The stored trees that list exactly the names to record of the working
\* directory.
RootTrees ==
    {t \in StoredTrees :
        {TreeEntries(t)[i].name : i \in 1..Len(TreeEntries(t))}
            = {n \in RootNames : Recorded(n)}}

C5_SkipsExactlyDotGit ==
    WriteTreeRan =>
        \A n \in RootNames :
            Recorded(n) =>
                \E t \in StoredTrees :
                    \E i \in 1..Len(TreeEntries(t)) : TreeEntries(t)[i].name = n

\* The working directory holds nothing but .git and empty subdirectories.
OnlyEmptySubdirs ==
    \A n \in RootNames : n # S_dotgit => (isDirectory(fs, <<n>>) /\ ~NonEmptyDir(n))

EmptyTree == S_tree \o <<48, 0>>

\* C6: in a working directory that holds only empty subdirectories,
\* write-tree succeeds, writes the tree object with the empty payload
\* (tree 0 NUL) and prints its sha.
C6_EmptyTree ==
    (WriteTreeRan /\ OnlyEmptySubdirs) =>
        /\ last.err = "none"
        /\ stdout = sha1hex(EmptyTree)
        /\ LoosePath(sha1hex(EmptyTree)) \in DOMAIN fs
        /\ fs[LoosePath(sha1hex(EmptyTree))] = File(deflateSync(EmptyTree))

LineFeeds(content) == {i \in 1..Len(content) : content[i] = 10}

LineStarts(content) ==
    {s \in {1} \cup {i + 1 : i \in LineFeeds(content)} : s <= Len(content)}

LineAt(content, s) ==
    LET ends == {i \in LineFeeds(content) : i >= s}
    IN  IF ends = {} THEN SubSeq(content, s, Len(content))
        ELSE SubSeq(content, s, (CHOOSE e \in ends : \A f \in ends : e <= f) - 1)

HeaderStarts(content) ==
    {s \in LineStarts(content) :
        \A b \in LineStarts(content) : content[b] = 10 => s < b}

StartsWith(line, prefix) ==
    Len(line) >= Len(prefix) /\ SubSeq(line, 1, Len(prefix)) = prefix

\* The header lines that begin with a given key, in payload order.
RECURSIVE InOrder(_, _)
InOrder(content, starts) ==
    IF starts = {} THEN <<>>
    ELSE LET s == CHOOSE x \in starts : \A y \in starts : x <= y
         IN  <<LineAt(content, s)>> \o InOrder(content, starts \ {s})

HeaderLines(content, key) ==
    InOrder(content, {s \in HeaderStarts(content) : StartsWith(LineAt(content, s), key)})

\* C8: the commit payload holds exactly one tree <sha> line, followed by one
\* parent <sha> line per parent the caller supplied, in the caller's order;
\* a commit-tree without -p yields a payload without a parent line.
C8_ParentLines ==
    \A r \in commits :
        r.err = "none" =>
            /\ HeaderLines(r.content, S_tree) = <<S_tree \o TreeSHA>>
            /\ LineAt(r.content, 1) = S_tree \o TreeSHA
            /\ HeaderLines(r.content, S_parent)
                  = [i \in 1..Len(r.parent) |-> S_parent \o r.parent[i]]

\* The text after a key in the one header line that begins with it.
ValueOf(content, key) ==
    LET line == HeaderLines(content, key)[1]
    IN  SubSeq(line, Len(key) + 1, Len(line))

\* C9: two runs of commit-tree with the same tree, parent, identity and
\* message produce the same commit sha whatever the time of each run, and
\* within one run the author and committer timestamps are equal.
C9_Deterministic ==
    /\ \A r1, r2 \in commits :
          (r1.err = "none" /\ r2.err = "none" /\ r1.parent = r2.parent) =>
              r1.sha = r2.sha
    /\ \A r \in commits :
          r.err = "none" =>
              ValueOf(r.content, S_author) = ValueOf(r.content, S_committer)

(***************************************************************************)
(* clone: the upload-pack request                                           *)
(***************************************************************************)
\* A pkt-line as the specification frames it: four lowercase hex digits of
\* len(payload) + 4, then the payload.
Frame(payload) == padStart(toHex(Len(payload) + 4), 4) \o payload

\* A capability list: printable characters without a line feed.
IsCapabilities(text) ==
    /\ Len(text) > 0
    /\ \A i \in 1..Len(text) : text[i] >= 32 /\ text[i] < 127

\* C10: the request body is one pkt-line whose prefix is len(payload) + 4 in
\* hex and whose payload is want <sha> <capabilities> LF, then the flush
\* 0000, then 0009done LF, with no nested or doubled length prefix.
C10_RequestBody ==
    request # <<>> =>
        LET body == request[1].body
            sha == request[1].sha
            lf == indexOf(body, 10, 1)
            payload == SubSeq(body, 5, lf)
        IN  /\ lf > 50
            /\ SubSeq(body, 1, lf) = Frame(payload)
            /\ StartsWith(payload, S_want \o sha \o <<32>>)
            /\ IsCapabilities(SubSeq(payload, 47, Len(payload) - 1))
            /\ SubSeq(body, lf + 1, Len(body)) = S_0000 \o Frame(S_done)

(***************************************************************************)
(* clone: the remote repository the model clones from.                     *)
(***************************************************************************)
\* Buffer.from(hex, "hex"): the 20 bytes a 40-character hex sha stands for.
BinOf(hex) ==
    LET v(c) == IF c >= 97 THEN c - 87 ELSE c - 48
    IN  [i \in 1..(Len(hex) \div 2) |-> 16 * v(hex[2 * i - 1]) + v(hex[2 * i])]

\* The bytes of an object: `<type> <size>\0<payload>`, type given with its space.
ObjectOf(type, payload) == type \o toDecimal(Len(payload)) \o <<0>> \o payload

\* One entry of a tree payload: mode, name, NUL, the 20 bytes of the sha.
TreeEntry(mode, name, sha) == mode \o <<32>> \o name \o <<0>> \o BinOf(sha)

M_40000 == <<52, 48, 48, 48, 48>>
M_100644 == <<49, 48, 48, 54, 52, 52>>
M_100755 == <<49, 48, 48, 55, 53, 53>>
M_120000 == <<49, 50, 48, 48, 48, 48>>
M_160000 == <<49, 54, 48, 48, 48, 48>>
Modes == {M_40000, M_100644, M_100755, M_120000, M_160000}

\* The objects of the remote repository: a blob, a tree below the root that
\* holds it as g, and for each mode a root tree whose one entry f has that
\* mode (the blob, the subtree, or a commit of another repository), with a
\* commit of that root tree.
RemoteBlob == ObjectOf(S_blob, <<104, 101, 108, 108, 111, 44, 32, 119, 111, 114, 108, 100, 32, 111, 102, 32, 103, 105, 116, 10>>)
RemoteSubtree == ObjectOf(S_tree, TreeEntry(M_100644, <<103>>, sha1hex(RemoteBlob)))

RemoteTree(mode) ==
    ObjectOf(S_tree,
             TreeEntry(mode, <<102>>,
                       CASE mode = M_40000 -> sha1hex(RemoteSubtree)
                         [] mode = M_160000 -> sha1hex(ObjectOf(S_commit, <<>>))
                         [] OTHER -> sha1hex(RemoteBlob)))

RemoteCommit(mode, message) ==
    ObjectOf(S_commit,
             S_tree \o sha1hex(RemoteTree(mode)) \o <<10>>
                 \o <<97, 117, 116, 104, 111, 114, 32, 97, 32, 60, 97, 62, 32, 49, 32, 43, 48, 48, 48, 48, 10, 99, 111, 109, 109, 105, 116, 116, 101, 114, 32, 97, 32, 60, 97, 62, 32, 49, 32, 43, 48, 48, 48, 48, 10, 10>>
                 \o message \o <<10>>)

(***************************************************************************)
(* clone: ref discovery.                                                    *)
(***************************************************************************)
S_HEAD == <<72, 69, 65, 68>>
S_refs_heads_main == <<114, 101, 102, 115, 47, 104, 101, 97, 100, 115, 47, 109, 97, 105, 110>>
S_refs_heads_master == <<114, 101, 102, 115, 47, 104, 101, 97, 100, 115, 47, 109, 97, 115, 116, 101, 114>>
S_service == <<35, 32, 115, 101, 114, 118, 105, 99, 101, 61, 103, 105, 116, 45, 117, 112, 108, 111, 97, 100, 45, 112, 97, 99, 107, 10>>

\* White space of String.prototype.trim, of \s and of parseInt, among bytes.
isSpace(c) == c \in {9, 10, 11, 12, 13, 32}

\* The least index from `from` on at which s has (has not) white space,
\* Len(s) + 1 when there is none.
firstIndex(s, from, space) ==
    LET found == {i \in from..Len(s) : isSpace(s[i]) = space}
    IN  IF found = {} THEN Len(s) + 1
        ELSE CHOOSE i \in found : \A j \in found : i <= j

\* parseInt(s, 16): <<>> for NaN, else <<the number>>.
hexVal(c) ==
    IF c \in 48..57 THEN c - 48
    ELSE IF c \in 97..102 THEN c - 87
    ELSE IF c \in 65..70 THEN c - 55
    ELSE 0 - 1

parseHex(s) ==
    LET RECURSIVE digits(_, _)
        digits(i, acc) ==
            IF i > Len(s) \/ hexVal(s[i]) < 0 THEN acc
            ELSE digits(i + 1, acc * 16 + hexVal(s[i]))
        number(negative, c) ==
            IF c > Len(s) \/ hexVal(s[c]) < 0 THEN <<>>
            ELSE IF negative THEN <<0 - digits(c, 0)>>
            ELSE <<digits(c, 0)>>
        prefix(negative, b) ==
            number(negative,
                   IF b + 1 <= Len(s) /\ s[b] = 48 /\ s[b + 1] \in {88, 120}
                   THEN b + 2 ELSE b)
        sign(a) ==
            prefix(a <= Len(s) /\ s[a] = 45,
                   IF a <= Len(s) /\ s[a] \in {43, 45} THEN a + 1 ELSE a)
    IN  sign(firstIndex(s, 1, FALSE))

\* Buffer.prototype.slice(start, end), both counted from 0, negative ones from
\* the end, both clipped to the buffer.
slice(buf, start, end) ==
    LET clip(i) == IF i < 0 THEN (IF Len(buf) + i < 0 THEN 0 ELSE Len(buf) + i)
                   ELSE IF i > Len(buf) THEN Len(buf) ELSE i
    IN  SubSeq(buf, clip(start) + 1, clip(end))

\* parseRefs(data) of the first CloneCommand: the refs object, or the error.
\* offset counts from 0.
parseRefs(data) ==
    LET RECURSIVE loop(_, _)
        loop(offset, refs) ==
            LET set(len, hash, ref) ==
                    loop(offset + len[1],
                         IF hash # <<>> /\ ref # <<>> THEN (ref :> hash) @@ refs ELSE refs)
                fields(len, line, a, b, c, d) ==
                    set(len, SubSeq(line, a, b - 1), SubSeq(line, c, d - 1))
                third(len, line, a, b, c) ==
                    fields(len, line, a, b, c, firstIndex(line, c, TRUE))
                second(len, line, a, b) == third(len, line, a, b, firstIndex(line, b, FALSE))
                first(len, line, a) == second(len, line, a, firstIndex(line, a, TRUE))
                split(len, line) == first(len, line, firstIndex(line, 1, FALSE))
                parsed(len) ==
                    IF len = <<>> THEN refs
                    ELSE IF len[1] = 0 THEN refs
                    ELSE split(len, slice(data, offset + 4, offset + len[1]))
            IN  IF ~(offset < Len(data)) THEN refs
                ELSE parsed(parseHex(slice(data, offset, offset + 4)))
        head(parsed) ==
            IF S_HEAD \notin DOMAIN parsed /\ S_refs_heads_main \in DOMAIN parsed
            THEN (S_HEAD :> parsed[S_refs_heads_main]) @@ parsed
            ELSE parsed
        result(refs) ==
            IF S_HEAD \notin DOMAIN refs
            THEN [err |-> "HEAD ref not found", refs |-> refs]
            ELSE [err |-> "none", refs |-> refs]
    IN  result(head(loop(0, <<>>)))

\* extractHeadSHA(refData) of the CloneCommand with checkout: the sha of the
\* first line that matches /^....([a-f0-9]{40})\s+refs\/heads\/master/.
extractHeadSHA(refData) ==
    LET matches(line) ==
            /\ Len(line) >= 45
            /\ \A i \in 1..4 : line[i] \notin {10, 13}
            /\ \A i \in 5..44 : line[i] \in (48..57) \cup (97..102)
            /\ isSpace(line[45])
            /\ LET k == firstIndex(line, 45, FALSE)
               IN  /\ k + Len(S_refs_heads_master) - 1 <= Len(line)
                   /\ SubSeq(line, k, k + Len(S_refs_heads_master) - 1)
                          = S_refs_heads_master
        found == {s \in LineStarts(refData) : matches(LineAt(refData, s))}
    IN  IF found = {} THEN [err |-> "HEAD ref not found in refs.", sha |-> <<>>]
        ELSE [err |-> "none",
              sha |-> SubSeq(LineAt(refData, CHOOSE s \in found : \A u \in found : s <= u),
                             5, 44)]

(***************************************************************************)
(* clone: what the remote advertises.                                      *)
(***************************************************************************)
\* A remote: the mode of the entry of its root tree, and the layout of its
\* refs.  HEAD, when advertised, is a symref to the branch named first.
Remotes ==
    [mode : Modes,
     layout : {"master", "main", "main+master", "master alone", "main alone"}]

HeadCommit(r) == RemoteCommit(r.mode, <<97>>)
OtherCommit(r) == RemoteCommit(r.mode, <<98>>)

\* The refs a remote advertises, in the order of the advertisement.
RefsOf(r) ==
    LET refs(A, B) ==
            CASE r.layout = "master" -> <<<<S_HEAD, A>>, <<S_refs_heads_master, A>>>>
              [] r.layout = "main" -> <<<<S_HEAD, A>>, <<S_refs_heads_main, A>>>>
              [] r.layout = "main+master" ->
                    <<<<S_HEAD, A>>, <<S_refs_heads_main, A>>, <<S_refs_heads_master, B>>>>
              [] r.layout = "master alone" -> <<<<S_refs_heads_master, A>>>>
              [] OTHER -> <<<<S_refs_heads_main, A>>>>
    IN  refs(sha1hex(HeadCommit(r)), sha1hex(OtherCommit(r)))

\* The branch HEAD points to, <<>> when HEAD is not advertised.
HeadTarget(r) ==
    CASE r.layout = "master" -> <<S_refs_heads_master>>
      [] r.layout \in {"main", "main+master"} -> <<S_refs_heads_main>>
      [] OTHER -> <<>>

\* The body of GET info/refs?service=git-upload-pack: the service line, a
\* flush, one pkt-line per ref (the first with the capabilities after a NUL),
\* a flush.
Advertisement(r) ==
    LET capabilities ==
            <<109, 117, 108, 116, 105, 95, 97, 99, 107, 32, 115, 105, 100, 101, 45, 98, 97, 110, 100, 45, 54, 52, 107, 32, 111, 102, 115, 45, 100, 101, 108, 116, 97>>
                \o (IF HeadTarget(r) = <<>> THEN <<>>
                    ELSE <<32, 115, 121, 109, 114, 101, 102, 61, 72, 69, 65, 68, 58>>
                             \o HeadTarget(r)[1])
                \o <<32, 97, 103, 101, 110, 116, 61, 103, 105, 116, 47, 50, 46, 52, 51>>
        body(refs) ==
            LET line(i) == refs[i][2] \o <<32>> \o refs[i][1]
                               \o (IF i = 1 THEN <<0>> \o capabilities ELSE <<>>) \o <<10>>
                lines[i \in 0..Len(refs)] ==
                    IF i = 0 THEN <<>>
                    ELSE lines[i - 1] \o padStart(toHex(Len(line(i)) + 4), 4) \o line(i)
            IN  padStart(toHex(Len(S_service) + 4), 4) \o S_service \o S_0000
                    \o lines[Len(refs)] \o S_0000
    IN  body(RefsOf(r))

\* fs.mkdirSync(p, { recursive: true })
mkdirRecursive(t, p) ==
    LET prefixes == {SubSeq(p, 1, i) : i \in 0..Len(p)}
    IN  IF \E q \in prefixes : q \in DOMAIN t /\ t[q].kind # "dir"
        THEN Throw(t, "EEXIST")
        ELSE Ok([q \in DOMAIN t \cup prefixes |-> IF q \in DOMAIN t THEN t[q] ELSE Dir])

S_refs == <<114, 101, 102, 115>>
S_heads == <<104, 101, 97, 100, 115>>

\* initGitDirectory()
initGitDirectory(t) ==
    LET objects == mkdirRecursive(t, <<S_dotgit, S_objects>>)
    IN  IF objects.err # "none" THEN objects
        ELSE mkdirRecursive(objects.fs, <<S_dotgit, S_refs, S_heads>>)

\* A response body the connection cut short: without its closing flush and
\* without the cut bytes before it; cut = 0 is the whole body.
Truncated(body, cut) ==
    IF cut = 0 THEN body ELSE SubSeq(body, 1, Len(body) - Len(S_0000) - cut)

\* The advertisements parseRefs is applied to: of any remote, with the
\* service line and its flush or bare (starting at the first ref), whole or
\* cut short by one or two bytes.
AdvertBody(x) ==
    LET body(whole, skip) ==
            Truncated(IF x.bare THEN SubSeq(whole, skip + 1, Len(whole)) ELSE whole, x.cut)
    IN  body(Advertisement(x.remote), Len(S_service) + 2 * Len(S_0000))

\* parseRefs of the first CloneCommand, applied to an advertisement.
ParseRefs ==
    \E x \in [remote : Remotes, bare : BOOLEAN, cut : {0, 1, 2}] :
        /\ probe = <<>> /\ clone.pc = "none"
        /\ probe' = <<[fn |-> "parseRefs", input |-> x, out |-> parseRefs(AdvertBody(x))]>>
        /\ UNCHANGED <<fs, stdout, last, now, commits, request, clone>>

\* execute() of the CloneCommand with checkout, up to the sha it wants: the
\* destination is the working directory; the remote answers GET info/refs.
\* The destination directory may exist before clone runs and hold a file f,
\* empty or not: execute() creates the directory only if it is missing.
DestinationFile ==
    /\ clone.pc = "none" /\ probe = <<>>
    /\ <<<<102>>>> \notin DOMAIN fs
    /\ \E data \in {<<>>, <<111, 108, 100, 10>>} :
          fs' = writeFileSync(fs, <<<<102>>>>, data).fs
    /\ UNCHANGED <<stdout, last, now, commits, request, clone, probe>>

CloneFetchRefs ==
    /\ clone.pc = "none" /\ probe = <<>>
    /\ \E r \in Remotes :
        \E made \in {initGitDirectory(fs)}, head \in {extractHeadSHA(Advertisement(r))} :
            LET err == IF made.err # "none" THEN made.err ELSE head.err
            IN  /\ fs' = made.fs
                /\ clone' = [pc |-> IF err = "none" THEN "refs" ELSE "failed",
                             remote |-> r, headSHA |-> head.sha, err |-> err]
                /\ last' = [cmd |-> "clone", args |-> <<>>, err |-> err]
                /\ UNCHANGED <<stdout, now, commits, request, probe>>

(***************************************************************************)
(* clone: the side-band demultiplexer.                                      *)
(***************************************************************************)
\* A variant that takes the progress band for pack data too.
isPackBandOrProgress(band) == band = <<1>> \/ band = <<2>>

\* if (band === 1), band being buffer[offset + 4]: <<>> past the end.
isPackBand(band) == band = <<1>>

\* buffer[i], i counted from 0: <<>> for undefined.
byteAt(buffer, i) == IF i >= 0 /\ i < Len(buffer) THEN <<buffer[i + 1]>> ELSE <<>>

\* extractPackData(responseBuffer) of the CloneCommand with checkout:
\* Buffer.concat(chunks).  offset counts from 0.
extractPackData(responseBuffer) ==
    LET RECURSIVE loop(_)
        loop(offset) ==
            LET frame(length) ==
                    IF length = <<>>
                    THEN <<>>
                    ELSE IF length[1] = 0 THEN <<>>
                    ELSE (IF isPackBand(byteAt(responseBuffer, offset + 4))
                          THEN slice(responseBuffer, offset + 5, offset + length[1])
                          ELSE <<>>)
                         \o loop(offset + length[1])
            IN  IF ~(offset + 4 <= Len(responseBuffer)) THEN <<>>
                ELSE frame(parseHex(SubSeq(responseBuffer,
                                           (IF offset < 0 THEN 0 ELSE offset) + 1,
                                           offset + 4)))
    IN  loop(0)

\* decodeSideBand(buffer) of the second CloneCommand of part_001:
\* Buffer.concat(result).  offset counts from 0.
decodeSideBand(buffer) ==
    LET RECURSIVE loop(_)
        loop(offset) ==
            LET frame(length) ==
                    IF length = <<>>
                    THEN <<>>
                    ELSE IF length[1] = 0 THEN <<>>
                    ELSE (IF isPackBand(byteAt(buffer, offset + 4))
                          THEN slice(buffer, offset + 5, offset + length[1])
                          ELSE <<>>)
                         \o loop(offset + length[1])
            IN  IF ~(offset < Len(buffer)) THEN <<>>
                ELSE frame(parseHex(slice(buffer, offset, offset + 4)))
    IN  loop(0)

\* The upload-pack responses the demultiplexers are applied to: NAK or not,
\* then at most MaxFrames side-band frames (band byte, then payload), then
\* the flush; whole or cut short.
MaxFrames == 3

\* The frames: two of pack data, one of progress, one of error.
RECURSIVE FrameSeqs(_)
FrameSeqs(n) ==
    IF n = 0 THEN {<<>>}
    ELSE LET shorter == FrameSeqs(n - 1)
         IN  shorter \cup {Append(s, f) : s \in shorter,
                                          f \in {<<1, 80, 65>>, <<1, 67>>, <<2, 120>>, <<3, 101>>}}

\* The body of an upload-pack response with the given side-band frames: the
\* NAK line is "NAK\n".
SideBandResponse(nak, frames) ==
    LET framed[i \in 0..Len(frames)] ==
            IF i = 0 THEN <<>>
            ELSE framed[i - 1] \o padStart(toHex(Len(frames[i]) + 4), 4) \o frames[i]
    IN  (IF nak THEN <<48, 48, 48, 56, 78, 65, 75, 10>> ELSE <<>>)
            \o framed[Len(frames)] \o S_0000

SideBandInputs == [nak : BOOLEAN, frames : FrameSeqs(MaxFrames), cut : {0, 1, 2}]
SideBandBody(x) == Truncated(SideBandResponse(x.nak, x.frames), x.cut)

\* extractPackData applied to a response.
ExtractPackData ==
    \E x \in SideBandInputs :
        /\ probe = <<>> /\ clone.pc = "none"
        /\ probe' = <<[fn |-> "extractPackData", input |-> x,
                       out |-> [err |-> "none",
                                data |-> extractPackData(SideBandBody(x))]]>>
        /\ UNCHANGED <<fs, stdout, last, now, commits, request, clone>>

\* decodeSideBand applied to a response.
DecodeSideBand ==
    \E x \in SideBandInputs :
        /\ probe = <<>> /\ clone.pc = "none"
        /\ probe' = <<[fn |-> "decodeSideBand", input |-> x,
                       out |-> [err |-> "none",
                                data |-> decodeSideBand(SideBandBody(x))]]>>
        /\ UNCHANGED <<fs, stdout, last, now, commits, request, clone>>

(***************************************************************************)
(* clone: the packfile decoder of the CloneCommand with checkout.          *)
(***************************************************************************)
S_PACK == <<80, 65, 67, 75>>

\* typeMap[type] || "unknown" of decodePackHeader
typeMap(type) ==
    CASE type = 1 -> "commit"
      [] type = 2 -> "tree"
      [] type = 3 -> "blob"
      [] type = 4 -> "tag"
      [] type = 6 -> "ref-delta"
      [] type = 7 -> "ofs-delta"
      [] OTHER -> "unknown"

\* typeMap[type] || "unknown" of decodePackHeader of clone.js
typeMapThin(type) ==
    CASE type = 1 -> "commit"
      [] type = 2 -> "tree"
      [] type = 3 -> "blob"
      [] OTHER -> "unknown"

\* The operand a bitwise operator makes of buffer[i]: 0 for undefined.
toInt32(b) == IF b = <<>> THEN 0 ELSE b[1]

\* The while loop of decodePackHeader.  size is a 32-bit integer, kept as the
\* set of the positions of its one bits; << takes its count modulo 32 and
\* drops the bits it moves past bit 31.
RECURSIVE decodePackHeaderLoop(_, _, _, _, _, _)
decodePackHeaderLoop(buffer, offset, byte, size, shift, i) ==
    IF byte < 128 THEN [size |-> size, headerSize |-> i]
    ELSE LET next == toInt32(byteAt(buffer, offset + i))
             moved == {k + (shift % 32) : k \in {j \in 0..6 : (next \div (2 ^ j)) % 2 = 1}}
         IN  decodePackHeaderLoop(buffer, offset, next, size \cup (moved \cap (0..31)),
                                  shift + 7, i + 1)

\* A variant that shifts the first continuation byte by 7 bits.
decodePackHeaderShift7(buffer, offset) ==
    LET byte == toInt32(byteAt(buffer, offset))
        type == (byte \div 16) % 8
        r == decodePackHeaderLoop(buffer, offset, byte,
                                  {j \in 0..3 : (byte \div (2 ^ j)) % 2 = 1}, 7, 1)
    IN  [type |-> typeMap(type), size |-> r.size, headerSize |-> r.headerSize]

\* decodePackHeader(buffer, offset)
decodePackHeader(buffer, offset) ==
    LET byte == toInt32(byteAt(buffer, offset))
        type == (byte \div 16) % 8
        r == decodePackHeaderLoop(buffer, offset, byte,
                                  {j \in 0..3 : (byte \div (2 ^ j)) % 2 = 1}, 4, 1)
    IN  [type |-> typeMap(type), size |-> r.size, headerSize |-> r.headerSize]

\* findZlibAtPosition(buffer, startPos): the position, or -1.
findZlibAtPosition(buffer, startPos) ==
    LET found == {pos \in startPos..(startPos + 19) :
                     /\ pos < Len(buffer) - 1
                     /\ byteAt(buffer, pos) = <<120>>
                     /\ byteAt(buffer, pos + 1) \in {<<156>>, <<1>>, <<218>>, <<94>>}}
    IN  IF found = {} THEN 0 - 1 ELSE CHOOSE p \in found : \A q \in found : p <= q

\* readInflatedObject(buffer): the first length from 30 on at which the
\* bytes before it inflate or fail otherwise than by ending too early.
readInflatedObject(buffer) ==
    LET first(tried) ==
            IF tried = {} THEN 0 ELSE CHOOSE x \in tried : \A y \in tried : x <= y
        result(i, inflated) ==
            IF i = 0 THEN [err |-> "Inflate failed", object |-> <<>>, consumed |-> 0]
            ELSE IF inflated.ok
            THEN [err |-> "none", object |-> inflated.data, consumed |-> i]
            ELSE [err |-> inflated.code, object |-> <<>>, consumed |-> 0]
        at(i) == result(i, inflateSync(SubSeq(buffer, 1, i)))
    IN  at(first({i \in 30..(Len(buffer) - 1) :
                     inflateSync(SubSeq(buffer, 1, i)).code # "Z_BUF_ERROR"}))

\* What unpackPackfile skips after the header of a delta: 20 bytes for the
\* type it calls ref-delta, a varint for the type it calls ofs-delta.
deltaBaseSkip(pack, offset, type) ==
    LET RECURSIVE skipVarint(_)
        skipVarint(at) ==
            IF toInt32(byteAt(pack, at)) >= 128 THEN skipVarint(at + 1) ELSE at + 1
    IN  IF type = "ref-delta" THEN offset + 20
        ELSE IF type = "ofs-delta" THEN skipVarint(offset)
        ELSE offset

\* The search for the object after a delta: the first position from offset
\* on, below pack.length - 10, where a header of a commit, tree, blob or tag
\* is followed by the start of a zlib stream; -1 when there is none.
findNextObject(pack, offset) ==
    LET found == {searchPos \in offset..(Len(pack) - 11) :
                     LET testHeader == decodePackHeader(pack, searchPos)
                     IN  /\ testHeader.type \in {"commit", "tree", "blob", "tag"}
                         /\ findZlibAtPosition(pack, searchPos + testHeader.headerSize)
                                # 0 - 1}
    IN  IF found = {} THEN 0 - 1 ELSE CHOOSE p \in found : \A q \in found : p <= q

\* `${type} ` of the header of an object
typeText(type) ==
    CASE type = "commit" -> S_commit
      [] type = "tree" -> S_tree
      [] type = "blob" -> S_blob
      [] type = "tag" -> <<116, 97, 103, 32>>
      [] OTHER -> <<117, 110, 107, 110, 111, 119, 110, 32>>

\* unpackPackfile(buffer): the objects, and what the for loop logged for each
\* header it decoded.
unpackPackfile(buffer) ==
    LET first(starts) ==
            IF starts = {} THEN 0 - 1
            ELSE (CHOOSE s \in starts : \A u \in starts : s <= u) - 1
        unpack(pack, objectCount) ==
            LET RECURSIVE loop(_, _, _, _)
                loop(i, offset, objects, log) ==
                    LET entry(h, outcome) ==
                            [type |-> h.type, offset |-> offset, outcome |-> outcome]
                        delta(h, next) ==
                            IF next = 0 - 1
                            THEN [objects |-> objects, log |-> Append(log, entry(h, "stopped"))]
                            ELSE loop(i + 1, next, objects,
                                      Append(log, entry(h, "skipped")))
                        inflated(h, zlibStart, read, fullObject) ==
                            IF read.err # "none"
                            THEN loop(i + 1, zlibStart, objects,
                                      Append(log, entry(h, "failed")))
                            ELSE loop(i + 1, zlibStart + read.consumed,
                                      (sha1hex(fullObject) :> fullObject) @@ objects,
                                      Append(log, entry(h, "processed")))
                        regular(h, zlibStart, read) ==
                            IF zlibStart = 0 - 1
                            THEN loop(i + 1, offset + h.headerSize,
                                      objects, Append(log, entry(h, "no zlib data")))
                            ELSE inflated(h, zlibStart, read,
                                          typeText(h.type) \o toDecimal(Len(read.object)) \o <<0>>
                                              \o read.object)
                        object(h, zlibStart) ==
                            IF h.type \in {"ref-delta", "ofs-delta"}
                            THEN delta(h, findNextObject(pack,
                                              deltaBaseSkip(pack, offset + h.headerSize, h.type)))
                            ELSE regular(h, zlibStart,
                                         readInflatedObject(slice(pack, zlibStart, Len(pack))))
                        header(h) == object(h, findZlibAtPosition(pack, offset + h.headerSize))
                    IN  IF ~(i < objectCount) THEN [objects |-> objects, log |-> log]
                        ELSE header(decodePackHeader(pack, offset))
            IN  [err |-> "none"] @@ loop(0, 12, <<>>, <<>>)
        checked(pack) ==
            IF Len(pack) < 12
            THEN [err |-> "Corrupted PACK file", objects |-> <<>>, log |-> <<>>]
            ELSE unpack(pack, ((pack[9] * 256 + pack[10]) * 256 + pack[11]) * 256 + pack[12])
        from(packStart) ==
            IF packStart = 0 - 1
            THEN [err |-> "PACK header not found", objects |-> <<>>, log |-> <<>>]
            ELSE checked(slice(buffer, packStart, Len(buffer)))
    IN  from(first({s \in 1..(Len(buffer) - 3) : SubSeq(buffer, s, s + 3) = S_PACK}))

(***************************************************************************)
(* clone: the packfile the remote sends.                                   *)
(***************************************************************************)
\* The header of a pack entry: the type code and the low four bits of the
\* size in the first byte, the rest of the size in groups of seven bits, the
\* high bit marking that another byte follows.
PackEntryHeader(code, size) ==
    LET RECURSIVE sizeVarint(_)
        sizeVarint(n) ==
            IF n < 128 THEN <<n>> ELSE <<128 + (n % 128)>> \o sizeVarint(n \div 128)
    IN  IF size < 16 THEN <<code * 16 + size>>
        ELSE <<128 + code * 16 + (size % 16)>> \o sizeVarint(size \div 16)

\* A pack entry: its type code, the base reference of a delta (a negative
\* offset varint or a 20-byte sha, empty otherwise) and its payload.
PackEntry(e) ==
    PackEntryHeader(e.code, Len(e.payload)) \o e.base \o deflateSync(e.payload)

\* The entry of an object given by its bytes `<type> <size>\0<payload>`.
EntryOf(object) ==
    [code |-> CASE object[1] = 99 -> 1 [] object[1] = 98 -> 3 [] OTHER -> 2,
     base |-> <<>>, payload |-> parseGitObject(object).content]

\* A version-2 pack of the entries, with the SHA-1 of what precedes as its
\* trailer, or with a trailer that is not that SHA-1.
PackOf(entries, trailerGood) ==
    LET upTo[i \in 0..Len(entries)] ==
            IF i = 0 THEN <<>> ELSE upTo[i - 1] \o PackEntry(entries[i])
        sealed(body, trailer) ==
            body \o (IF trailerGood THEN trailer
                     ELSE <<(trailer[1] + 1) % 256>> \o Tail(trailer))
        pack(body) == sealed(body, BinOf(sha1hex(body)))
    IN  pack(S_PACK \o <<0, 0, 0, 2>> \o <<0, 0, 0, Len(entries)>> \o upTo[Len(entries)])

\* The objects reachable from a commit of the remote, in pack order.
ObjectsOf(r, commit) ==
    <<commit, RemoteTree(r.mode)>>
        \o (IF r.mode = M_40000 THEN <<RemoteSubtree>> ELSE <<>>)
        \o (IF r.mode = M_160000 THEN <<>> ELSE <<RemoteBlob>>)

\* A blob the remote sends as a delta against RemoteBlob: copy its 20 bytes,
\* then insert two.
DeltaPayload == <<20, 22, 144, 20, 2, 33, 10>>
DeltaResult == ObjectOf(S_blob, parseGitObject(RemoteBlob).content \o <<33, 10>>)

\* The entries of the pack of an answer: the objects of the commit, and for
\* some answers one more entry: an object of a type code Git does not
\* define, or a delta against the blob.
EntriesOf(r, commit, kind) ==
    LET more(entries, blob) ==
            CASE kind = "type 0" ->
                    Append(entries, [code |-> 0, base |-> <<>>, payload |-> blob.payload])
              [] kind = "type 5" ->
                    Append(entries, [code |-> 5, base |-> <<>>, payload |-> blob.payload])
              [] kind = "ofs-delta" /\ r.mode # M_160000 ->
                    Append(entries, [code |-> 6, base |-> <<Len(PackEntry(blob))>>,
                                     payload |-> DeltaPayload])
              [] kind = "ref-delta" /\ r.mode # M_160000 ->
                    Append(entries, [code |-> 7, base |-> BinOf(sha1hex(RemoteBlob)),
                                     payload |-> DeltaPayload])
              [] OTHER -> entries
        entriesOf(objects) == [i \in 1..Len(objects) |-> EntryOf(objects[i])]
    IN  more(entriesOf(ObjectsOf(r, commit)), EntryOf(RemoteBlob))

\* The body of the answer to `want <commit>`: NAK, the pack in band-1
\* frames, progress in band 2, an error in band 3, the flush.
Response(r, commit, kind) ==
    LET progress == <<2>> \o <<67, 111, 117, 110, 116, 105, 110, 103, 32, 111, 98, 106, 101, 99, 116, 115, 58, 32, 51, 44, 32, 100, 111, 110, 101, 46, 10>>
        fatal == <<3>> \o <<102, 97, 116, 97, 108, 58, 32, 116, 104, 101, 32, 114, 101, 109, 111, 116, 101, 32, 101, 110, 100, 32, 104, 117, 110, 103, 32, 117, 112, 10>>
        answer(data) ==
            CASE kind = "pack and progress" ->
                    SideBandResponse(TRUE, <<progress, data[1], progress, data[2]>>)
              [] kind = "pack then error" -> SideBandResponse(TRUE, Append(data, fatal))
              [] kind = "error" -> SideBandResponse(TRUE, <<fatal>>)
              [] kind = "cut short" -> Truncated(SideBandResponse(TRUE, data), 30)
              [] OTHER -> SideBandResponse(TRUE, data)
        halves(pack, half) ==
            answer(<<<<1>> \o SubSeq(pack, 1, half),
                     <<1>> \o SubSeq(pack, half + 1, Len(pack))>>)
        framed(pack) == halves(pack, Len(pack) \div 2)
    IN  framed(PackOf(EntriesOf(r, commit, kind), kind # "bad trailer"))

(***************************************************************************)
(* clone: writing the store, HEAD and the working directory.               *)
(***************************************************************************)
\* writeGitObjects(objects): the writes go to distinct paths, in the order
\* of the keys of objects.
RECURSIVE writeGitObjects(_, _)
writeGitObjects(t, objects) ==
    IF DOMAIN objects = {} THEN Ok(t)
    ELSE LET sha == CHOOSE k \in DOMAIN objects : TRUE
             objectDir == <<S_dotgit, S_objects, SubSeq(sha, 1, 2)>>
             made == mkdirRecursive(t, objectDir)
             written == writeFileSync(made.fs, Append(objectDir, SubSeq(sha, 3, 40)),
                                      deflateSync(objects[sha]))
         IN  IF made.err # "none" THEN made
             ELSE IF written.err # "none" THEN written
             ELSE writeGitObjects(written.fs,
                                  [k \in DOMAIN objects \ {sha} |-> objects[k]])

\* writeHEADFile(sha): `ref: refs/heads/master\n` to .git/HEAD, then the sha
\* to .git/refs/heads/master.
writeHEADFile(t, sha) ==
    LET head == writeFileSync(t, <<S_dotgit, S_HEAD>>,
                              <<114, 101, 102, 58, 32>> \o S_refs_heads_master \o <<10>>)
    IN  IF head.err # "none" THEN head
        ELSE writeFileSync(head.fs,
                           <<S_dotgit, S_refs, S_heads, <<109, 97, 115, 116, 101, 114>>>>,
                           sha \o <<10>>)

\* fs.chmodSync(p, 0o755): the file becomes executable.
chmodSync(t, p) == Ok((p :> [kind |-> "exec", data |-> t[p].data]) @@ t)

\* findObjectByHash(sha, objects): <<>> for null.
findObjectByHash(sha, objects) ==
    IF sha \in DOMAIN objects THEN <<objects[sha]>> ELSE <<>>

\* checkoutTree(treeContent, objects, basePath), from the entry at offset on.
RECURSIVE checkoutTree(_, _, _, _, _)
checkoutTree(t, content, objects, basePath, offset) ==
    LET subdirectory(filePath, found, made) ==
            IF made.err # "none" \/ found = <<>> THEN made
            ELSE checkoutTree(made.fs, parseGitObject(found[1]).content, objects,
                              filePath, 0)
        write(mode, filePath, made, written) ==
            IF made.err # "none" THEN made
            ELSE IF written.err # "none" THEN written
            ELSE IF mode = M_100755 THEN chmodSync(written.fs, filePath)
            ELSE written
        dirname(mode, filePath, found, made) ==
            write(mode, filePath, made,
                  writeFileSync(made.fs, filePath, parseGitObject(found[1]).content))
        file(mode, filePath, found) ==
            IF found = <<>> THEN Ok(t)
            ELSE dirname(mode, filePath, found,
                         IF parent(filePath) # <<>>
                         THEN mkdirRecursive(t, parent(filePath)) ELSE Ok(t))
        checkout(mode, filePath, found) ==
            IF mode = M_40000
            THEN subdirectory(filePath, found, mkdirRecursive(t, filePath))
            ELSE file(mode, filePath, found)
        next(nullIndex, done) ==
            IF done.err # "none" THEN done
            ELSE checkoutTree(done.fs, content, objects, basePath, nullIndex + 21)
        names(nullIndex, mode, rest) ==
            LET filename == IF indexOf(rest, 32, 1) = 0 THEN rest
                            ELSE SubSeq(rest, 1, indexOf(rest, 32, 1) - 1)
            IN  next(nullIndex,
                     checkout(mode,
                              IF filename = <<>> THEN basePath
                              ELSE Append(basePath, filename),
                              findObjectByHash(
                                  HexOf(slice(content, nullIndex + 1, nullIndex + 21)),
                                  objects)))
        split(nullIndex, entry, space) ==
            IF space = 0
            THEN Throw(t, "TypeError: path.join(undefined)")
            ELSE names(nullIndex, SubSeq(entry, 1, space - 1),
                       SubSeq(entry, space + 1, Len(entry)))
        parse(nullIndex, entry) == split(nullIndex, entry, indexOf(entry, 32, 1))
        at(nullIndex) ==
            IF nullIndex = 0 - 1 THEN Ok(t)
            ELSE parse(nullIndex, slice(content, offset, nullIndex))
    IN  IF ~(offset < Len(content)) THEN Ok(t)
        ELSE at(indexOf(content, 0, offset + 1) - 1)

\* extractTreeSHA(commitContent): <<>> when no line starts with `tree `.
extractTreeSHA(content) ==
    LET found == {s \in LineStarts(content) \cup {Len(content) + 1} :
                     StartsWith(LineAt(content, s), S_tree)}
        line == LineAt(content, CHOOSE s \in found : \A u \in found : s <= u)
    IN  IF found = {} THEN <<>> ELSE <<SubSeq(line, Len(S_tree) + 1, Len(line))>>

\* checkoutWorkingDirectory(headSHA, objects)
checkoutWorkingDirectory(t, headSHA, objects) ==
    LET tree(treeObject) ==
            IF treeObject = <<>> THEN Throw(t, "Tree object not found")
            ELSE checkoutTree(t, parseGitObject(treeObject[1]).content, objects, <<>>, 0)
        commit(commitObject, treeSHA) ==
            IF commitObject = <<>> THEN Throw(t, "Commit object not found")
            ELSE IF treeSHA = <<>> THEN Throw(t, "Tree SHA not found in commit")
            ELSE tree(findObjectByHash(treeSHA[1], objects))
        found(commitObject) ==
            commit(commitObject,
                   IF commitObject = <<>> THEN <<>>
                   ELSE extractTreeSHA(parseGitObject(commitObject[1]).content))
    IN  found(findObjectByHash(headSHA, objects))

\* execute() of the CloneCommand with checkout, from the request on: the
\* remote answers the POST with one of its answers, and the rest of execute()
\* runs to its end or to the first error.  The outcome tells the step
\* execute() reached.
CloneExecute(t, r, headSHA, kind) ==
    LET outcome(step, at, packData, unpacked) ==
            [fs |-> step.fs, err |-> step.err, reached |-> at, packData |-> packData,
             objects |-> unpacked.objects, log |-> unpacked.log]
        checkedOut(step, packData, unpacked) ==
            outcome(step,
                    IF step.err # "none" THEN "checkoutWorkingDirectory"
                    ELSE "Cloning completed.",
                    packData, unpacked)
        head(step, packData, unpacked) ==
            IF step.err # "none" THEN outcome(step, "writeHEADFile", packData, unpacked)
            ELSE checkedOut(checkoutWorkingDirectory(step.fs, headSHA, unpacked.objects),
                            packData, unpacked)
        stored(step, packData, unpacked) ==
            IF step.err # "none" THEN outcome(step, "writeGitObjects", packData, unpacked)
            ELSE head(writeHEADFile(step.fs, headSHA), packData, unpacked)
        unpack(saved, packData, unpacked) ==
            IF unpacked.err # "none"
            THEN outcome([fs |-> saved.fs, err |-> unpacked.err], "unpackPackfile",
                         packData, unpacked)
            ELSE stored(writeGitObjects(saved.fs, unpacked.objects), packData, unpacked)
        extracted(saved, packData) == unpack(saved, packData, unpackPackfile(packData))
        fetched(packResponse, saved) ==
            IF saved.err # "none"
            THEN outcome(saved, "fetchPackfile", <<>>, [objects |-> <<>>, log |-> <<>>])
            ELSE extracted(saved, extractPackData(packResponse))
        \* fs.writeFileSync("raw-pack-response.bin", buffer)
        answered(packResponse) ==
            fetched(packResponse,
                    writeFileSync(t, <<<<114, 97, 119, 45, 112, 97, 99, 107, 45, 114, 101, 115, 112, 111, 110, 115, 101, 46, 98, 105, 110>>>>,
                                  packResponse))
    IN  answered(Response(r, IF headSHA = sha1hex(HeadCommit(r)) THEN HeadCommit(r)
                             ELSE OtherCommit(r), kind))

CloneFetchPack ==
    /\ clone.pc = "refs"
    /\ \E kind \in {"pack", "pack and progress", "pack then error", "error",
                    "bad trailer", "type 0", "type 5", "ofs-delta", "ref-delta",
                    "cut short"} :
        \E run \in {CloneExecute(fs, clone.remote, clone.headSHA, kind)} :
            /\ fs' = run.fs
            /\ request' = <<[impl |-> "checkout", sha |-> clone.headSHA,
                             body |-> buildUploadPackRequest(clone.headSHA)]>>
            /\ clone' = [pc |-> IF run.err = "none" THEN "done" ELSE "failed",
                         remote |-> clone.remote, headSHA |-> clone.headSHA,
                         err |-> run.err, kind |-> kind, reached |-> run.reached,
                         packData |-> run.packData, objects |-> run.objects,
                         log |-> run.log]
            /\ last' = [cmd |-> "clone", args |-> <<>>, err |-> run.err]
            /\ UNCHANGED <<stdout, now, commits, probe>>

(***************************************************************************)
(* clone: the packfile decoder of the second CloneCommand of clone.js.     *)
(***************************************************************************)
\* readAndInflate(buffer): the first length from 1 on at which the bytes
\* before it inflate, whatever the error at the shorter ones.
readAndInflate(buffer) ==
    LET first(tried) ==
            IF tried = {} THEN 0 ELSE CHOOSE x \in tried : \A y \in tried : x <= y
        at(i) ==
            IF i = 0 THEN [err |-> "Unable to inflate object", object |-> <<>>, consumed |-> 0]
            ELSE [err |-> "none", object |-> inflateSync(SubSeq(buffer, 1, i)).data,
                  consumed |-> i]
    IN  at(first({i \in 1..(Len(buffer) - 1) : inflateSync(SubSeq(buffer, 1, i)).ok}))

\* unpackPack(data); an error in the for loop leaves it without a return
\* value.
unpackPack(data) ==
    LET first(starts) ==
            IF starts = {} THEN 0 - 1
            ELSE (CHOOSE s \in starts : \A u \in starts : s <= u) - 1
        unpack(packBuffer, count) ==
            LET RECURSIVE loop(_, _, _)
                loop(i, offset, objects) ==
                    LET store(fullObject, next) ==
                            loop(i + 1, next, (sha1hex(fullObject) :> fullObject) @@ objects)
                        inflated(type, start, read) ==
                            IF read.err # "none" THEN [err |-> read.err, objects |-> <<>>]
                            ELSE store(typeText(type) \o toDecimal(Len(read.object)) \o <<0>>
                                           \o read.object,
                                       start + read.consumed)
                        header(byte, h) ==
                            inflated(typeMapThin((byte \div 16) % 8), offset + h.headerSize,
                                     readAndInflate(slice(packBuffer, offset + h.headerSize,
                                                          Len(packBuffer))))
                        entry(byte) ==
                            header(byte,
                                   decodePackHeaderLoop(
                                       packBuffer, offset, byte,
                                       {j \in 0..3 : (byte \div (2 ^ j)) % 2 = 1}, 4, 1))
                    IN  IF ~(i < count) THEN [err |-> "none", objects |-> objects]
                        ELSE entry(toInt32(byteAt(packBuffer, offset)))
            IN  loop(0, 12, <<>>)
        checked(packBuffer) ==
            IF Len(packBuffer) < 12 THEN [err |-> "ERR_OUT_OF_RANGE", objects |-> <<>>]
            ELSE unpack(packBuffer,
                        ((packBuffer[9] * 256 + packBuffer[10]) * 256 + packBuffer[11]) * 256
                            + packBuffer[12])
        from(packStart) ==
            IF packStart = 0 - 1 THEN [err |-> "PACK header not found", objects |-> <<>>]
            ELSE checked(slice(data, packStart, Len(data)))
    IN  from(first({s \in 1..(Len(data) - 3) : SubSeq(data, s, s + 3) = S_PACK}))

(***************************************************************************)
(* clone: the pack decoders applied to their inputs.                       *)
(***************************************************************************)
\* The entry headers decodePackHeader is applied to: any type code, sizes of
\* one to three header bytes, and after the header a one-byte or a two-byte
\* offset or the 20 bytes of a sha, then a zlib stream.
\* decodePackHeader, and what unpackPackfile skips after the header.
DecodePackHeader ==
    \E x \in [code : 0..7, size : {5, 20, 300, 70000, 268435456},
              base : {<<10>>, <<129, 10>>, BinOf(sha1hex(RemoteBlob))}] :
        \E buffer \in {PackEntryHeader(x.code, x.size) \o x.base \o deflateSync(DeltaPayload)} :
        \E h \in {decodePackHeader(buffer, 0)} :
            /\ probe = <<>> /\ clone.pc = "none"
            /\ probe' = <<[fn |-> "decodePackHeader", input |-> x,
                           out |-> [type |-> h.type, size |-> h.size,
                                    headerSize |-> h.headerSize,
                                    after |-> deltaBaseSkip(buffer, h.headerSize, h.type)]]>>
            /\ UNCHANGED <<fs, stdout, last, now, commits, request, clone>>

\* The packs unpackPack is applied to: those the remote answers with.
PackInput(x) ==
    LET r == [mode |-> x.mode, layout |-> "master"]
    IN  PackOf(EntriesOf(r, HeadCommit(r), x.kind), x.kind # "bad trailer")

\* unpackPack of the second CloneCommand of clone.js, applied to a pack.
UnpackPack ==
    \E x \in [mode : Modes,
              kind : {"pack", "bad trailer", "type 0", "type 5", "ofs-delta",
                      "ref-delta"}] :
        /\ probe = <<>> /\ clone.pc = "none"
        /\ probe' = <<[fn |-> "unpackPack", input |-> x, out |-> unpackPack(PackInput(x))]>>
        /\ UNCHANGED <<fs, stdout, last, now, commits, request, clone>>

\* The entry of a blob of n bytes.
BlobEntry(n) == [code |-> 3, base |-> <<>>, payload |-> [i \in 1..n |-> 97]]

\* unpackPackfile applied to a pack of two blobs, the zlib stream of the
\* first shorter than 30 bytes or not.
UnpackPackfile ==
    \E x \in [first : {3, 18, 19, 40}, second : {3, 25}] :
        /\ probe = <<>> /\ clone.pc = "none"
        /\ probe' = <<[fn |-> "unpackPackfile", input |-> x,
                       out |-> unpackPackfile(
                                   PackOf(<<BlobEntry(x.first), BlobEntry(x.second)>>,
                                          TRUE))]>>
        /\ UNCHANGED <<fs, stdout, last, now, commits, request, clone>>

\* clone into an empty destination: one run of the CloneCommand with
\* checkout, or one decoder of the other CloneCommands applied to one input.
SpecCloneRun ==
    InitClone /\ [][DestinationFile \/ CloneFetchRefs \/ CloneFetchPack \/ ParseRefs
                      \/ ExtractPackData \/ DecodeSideBand \/ DecodePackHeader
                      \/ UnpackPack \/ UnpackPackfile]_vars

(***************************************************************************)
(* clone: claims about ref discovery and the side band.                    *)
(***************************************************************************)
Probed(fn) == probe # <<>> /\ probe[1].fn = fn

\* C11: for every well-formed advertisement, ref discovery returns a mapping
\* that holds every advertised refname with its sha, the key HEAD included;
\* the discovery of clone with checkout, which returns one sha, does not
\* fail and returns the sha advertised for HEAD.
C11_RefDiscovery ==
    /\ (Probed("parseRefs") /\ probe[1].input.cut = 0 /\ ~probe[1].input.bare) =>
          LET refs == RefsOf(probe[1].input.remote)
              out == probe[1].out
          IN  /\ out.err = "none"
              /\ \A i \in 1..Len(refs) :
                    /\ refs[i][1] \in DOMAIN out.refs
                    /\ out.refs[refs[i][1]] = refs[i][2]
    /\ (clone.pc # "none" /\ HeadTarget(clone.remote) # <<>>) =>
          /\ clone.pc = "failed" => "kind" \in DOMAIN clone
          /\ clone.headSHA = RefsOf(clone.remote)[1][2]

\* The payloads of the band-1 frames, in order, without their band byte.
Band1Payloads(frames) ==
    LET upTo[i \in 0..Len(frames)] ==
            IF i = 0 THEN <<>>
            ELSE upTo[i - 1] \o (IF frames[i][1] = 1 THEN Tail(frames[i]) ELSE <<>>)
    IN  upTo[Len(frames)]

\* C13: for every upload-pack response made of whole pkt-lines, the side-band
\* demultiplexer returns exactly the payloads of the band-1 frames, without
\* their band byte, concatenated in arrival order; band-2 frames and a
\* leading NAK line contribute nothing.
C13_Band1Concatenation ==
    ((Probed("extractPackData") \/ Probed("decodeSideBand")) /\ probe[1].input.cut = 0) =>
        probe[1].out.data = Band1Payloads(probe[1].input.frames)

C13_Witness ==
    /\ Probed("extractPackData")
    /\ probe[1].input = [nak |-> TRUE, frames |-> <<<<1, 80, 65>>, <<2, 120>>, <<1, 67>>>>,
                         cut |-> 0]
    /\ probe[1].out.data = <<80, 65, 67>>

\* C15: the pkt-line decoders, ref parser and side-band demultiplexer alike,
\* reject with an error any frame whose declared length exceeds the bytes
\* that remain in the response.
C15_RejectsOverlongFrame ==
    ((Probed("extractPackData") \/ Probed("decodeSideBand") \/ Probed("parseRefs"))
        /\ probe[1].input.cut > 0) =>
        probe[1].out.err # "none"

(***************************************************************************)
(* clone: the pkt-line loops, one iteration at a time.                     *)
(***************************************************************************)
\* One iteration of the while loop of extractPackData, decodeSideBand or
\* parseRefs at the offset: the offset of the next iteration, or <<>> when
\* the loop ends, by its condition, by break on a length of 0, or because
\* the offset has become NaN, which fails the condition.
nextOffset(fn, buffer, offset) ==
    LET next(length) ==
            IF length = <<>> THEN <<>>
            ELSE IF length[1] = 0 THEN <<>>
            ELSE <<offset + length[1]>>
    IN  IF fn = "extractPackData"
        THEN IF ~(offset + 4 <= Len(buffer)) THEN <<>>
             ELSE next(parseHex(SubSeq(buffer, (IF offset < 0 THEN 0 ELSE offset) + 1,
                                       offset + 4)))
        ELSE IF ~(offset < Len(buffer)) THEN <<>>
             ELSE next(parseHex(slice(buffer, offset, offset + 4)))

\* The buffers the loops run on: at most n frames, each an empty pkt-line
\* 0004, a band-1 frame, a flush, or a prefix that is no length of a frame:
\* 0002, zzzz, -004.
RECURSIVE LoopBuffers(_)
LoopBuffers(n) ==
    IF n = 0 THEN {<<>>}
    ELSE LET shorter == LoopBuffers(n - 1)
         IN  shorter \cup {b \o f : b \in shorter,
                                    f \in {<<48, 48, 48, 52>>, <<48, 48, 48, 54, 1, 65>>,
                                           S_0000, <<48, 48, 48, 50>>,
                                           <<122, 122, 122, 122>>, <<45, 48, 48, 52>>}}

\* A loop is entered: let offset = 0.
LoopEnter ==
    /\ probe = <<>> /\ clone.pc = "none"
    /\ \E fn \in {"extractPackData", "decodeSideBand", "parseRefs"} :
        \E buffer \in LoopBuffers(MaxFrames) :
            probe' = <<[fn |-> "while", input |-> [of |-> fn, buffer |-> buffer],
                        out |-> [offset |-> 0, exited |-> FALSE]]>>
    /\ UNCHANGED <<fs, stdout, last, now, commits, request, clone>>

\* The loop tests its condition and runs its body once, or ends.
LoopIterate ==
    /\ probe # <<>> /\ probe[1].fn = "while" /\ ~probe[1].out.exited
    /\ \E next \in {nextOffset(probe[1].input.of, probe[1].input.buffer,
                                 probe[1].out.offset)} :
          probe' = <<[probe[1] EXCEPT
                         !.out = IF next = <<>>
                                 THEN [offset |-> probe[1].out.offset, exited |-> TRUE]
                                 ELSE [offset |-> next[1], exited |-> FALSE]]>>
    /\ UNCHANGED <<fs, stdout, last, now, commits, request, clone>>

\* The pkt-line loops of clone, run on well-formed and malformed buffers.
SpecLoops == InitClone /\ [][LoopEnter \/ LoopIterate]_vars

(***************************************************************************)
(* clone: claims about the run of clone.                                   *)
(***************************************************************************)
\* clone has received the answer to its want and has run to its end or to
\* an error.
CloneRan == clone.pc \in {"done", "failed"} /\ "kind" \in DOMAIN clone

\* The sha the remote advertises for a ref.
AdvertisedSHA(r, name) ==
    LET refs == RefsOf(r)
    IN  refs[CHOOSE i \in 1..Len(refs) : refs[i][1] = name][2]

Advertised(r, name) == \E i \in 1..Len(RefsOf(r)) : RefsOf(r)[i][1] = name

\* The branch a clone of the remote has to select.
SelectedBranch(r) ==
    IF HeadTarget(r) # <<>> THEN HeadTarget(r)[1]
    ELSE IF Advertised(r, S_refs_heads_main) THEN S_refs_heads_main
    ELSE S_refs_heads_master

\* C12: after a successful clone the selected branch is the advertised
\* target of HEAD, else refs/heads/main, else refs/heads/master; .git/HEAD
\* holds ref: <branch> LF, the file of the branch holds <sha> LF, and that
\* sha is the one advertised for the branch, wanted and checked out.
C12_BranchSelection ==
    clone.pc = "done" =>
        LET branch == SelectedBranch(clone.remote)
            sha == AdvertisedSHA(clone.remote, branch)
            file == <<S_dotgit, S_refs, S_heads,
                      SubSeq(branch, Len(S_refs_heads_main) - 3, Len(branch))>>
        IN  /\ fs[<<S_dotgit, S_HEAD>>] = File(<<114, 101, 102, 58, 32>> \o branch \o <<10>>)
            /\ file \in DOMAIN fs
            /\ fs[file] = File(sha \o <<10>>)
            /\ request[1].sha = sha
            /\ sha \in DOMAIN clone.objects

\* C14: when the answer holds a band-3 frame, the demultiplexer surfaces it
\* as an error and clone fails there: no pack bytes are returned, and no
\* object and no HEAD are written.
C14_FatalBand ==
    (CloneRan /\ clone.kind \in {"pack then error", "error"}) =>
        /\ clone.pc = "failed"
        /\ clone.reached = "extractPackData"
        /\ clone.packData = <<>>
        /\ StorePaths = {}
        /\ <<S_dotgit, S_HEAD>> \notin DOMAIN fs

\* C16: decodePackHeader maps the type field 1 to commit, 2 to tree, 3 to
\* blob, 4 to tag, 6 to ofs-delta and 7 to ref-delta; after the header the
\* decoder skips the 20 bytes of the base sha for type 7 and the bytes of
\* the offset varint for type 6.
C16_TypeCodes ==
    Probed("decodePackHeader") =>
        LET x == probe[1].input
            out == probe[1].out
        IN  /\ x.code = 1 => out.type = "commit"
            /\ x.code = 2 => out.type = "tree"
            /\ x.code = 3 => out.type = "blob"
            /\ x.code = 4 => out.type = "tag"
            /\ x.code = 6 => out.type = "ofs-delta"
            /\ x.code = 7 => out.type = "ref-delta"
            /\ (x.code = 7 /\ Len(x.base) = 20) => out.after = out.headerSize + 20
            /\ (x.code = 6 /\ Len(x.base) < 20) => out.after = out.headerSize + Len(x.base)

\* The type names of the objects Git defines.
ObjectTypes == {<<98, 108, 111, 98>>, <<116, 114, 101, 101>>,
                <<99, 111, 109, 109, 105, 116>>, <<116, 97, 103>>}

\* C17: a pack that holds an object of type 0 or 5 is rejected with an
\* error, and no object of a type other than blob, tree, commit and tag is
\* in the set the decoder returns or in the store.
C17_UnknownTypeRejected ==
    /\ CloneRan =>
          /\ clone.kind \in {"type 0", "type 5"} =>
                clone.pc = "failed" /\ clone.reached = "unpackPackfile"
          /\ \A sha \in DOMAIN clone.objects :
                parseGitObject(clone.objects[sha]).type \in ObjectTypes
          /\ \A p \in StorePaths : StoredObject(p).type \in ObjectTypes
    /\ Probed("unpackPack") =>
          /\ probe[1].input.kind \in {"type 0", "type 5"} => probe[1].out.err # "none"
          /\ \A sha \in DOMAIN probe[1].out.objects :
                parseGitObject(probe[1].out.objects[sha]).type \in ObjectTypes

\* The objects of the pack of an answer, the delta resolved against its base.
SentObjects(r, commit, kind) ==
    {ObjectsOf(r, commit)[i] : i \in 1..Len(ObjectsOf(r, commit))}
        \cup (IF kind \in {"ofs-delta", "ref-delta"} /\ r.mode # M_160000
              THEN {DeltaResult} ELSE {})

\* C18: for every accepted pack, each of the objects its header counts, a
\* delta resolved against its base and of the type of its base, is in the
\* returned set under its sha and is written to the store.
C18_EveryObjectStored ==
    (clone.pc = "done"
        /\ clone.kind \in {"pack", "pack and progress", "ofs-delta", "ref-delta"}) =>
        \A object \in SentObjects(clone.remote,
                                  IF clone.headSHA = sha1hex(HeadCommit(clone.remote))
                                  THEN HeadCommit(clone.remote)
                                  ELSE OtherCommit(clone.remote),
                                  clone.kind) :
            /\ sha1hex(object) \in DOMAIN clone.objects
            /\ clone.objects[sha1hex(object)] = object
            /\ LoosePath(sha1hex(object)) \in DOMAIN fs
            /\ fs[LoosePath(sha1hex(object))] = File(deflateSync(object))

\* C19: the trailer of the pack is verified: a pack whose trailer is not the
\* SHA-1 of the bytes before it is rejected with a fatal error, and no
\* object of it is written.
C19_TrailerVerified ==
    /\ (CloneRan /\ clone.kind = "bad trailer") =>
          /\ clone.pc = "failed"
          /\ StorePaths = {}
    /\ (Probed("unpackPack") /\ probe[1].input.kind = "bad trailer") =>
          probe[1].out.err # "none"

\* C20: checkout materializes the entry f of the root tree by its mode: a
\* directory, recursed into, for 40000; a file with the bytes of the blob
\* for 100644 and 100755, executable exactly for 100755; a symbolic link to
\* the content of the blob for 120000; an empty directory for 160000.
C20_CheckoutByMode ==
    (clone.pc = "done" /\ clone.kind = "pack") =>
        LET mode == clone.remote.mode
            blob == parseGitObject(RemoteBlob).content
        IN  /\ <<<<102>>>> \in DOMAIN fs
            /\ mode = M_40000 =>
                  /\ fs[<<<<102>>>>] = Dir
                  /\ <<<<102>>, <<103>>>> \in DOMAIN fs
                  /\ fs[<<<<102>>, <<103>>>>] = File(blob)
            /\ mode = M_100644 => fs[<<<<102>>>>] = File(blob)
            /\ mode = M_100755 => fs[<<<<102>>>>] = [kind |-> "exec", data |-> blob]
            /\ mode = M_120000 => fs[<<<<102>>>>] = [kind |-> "symlink", data |-> blob]
            /\ mode = M_160000 =>
                  /\ fs[<<<<102>>>>] = Dir
                  /\ \A p \in DOMAIN fs : ~(Len(p) > 1 /\ p[1] = <<102>>)

\* C21: checkout never overwrites an existing non-empty file: when the path f
\* of the tree entry holds a non-empty file before clone fetches the pack and
\* checkout reaches the entry, clone fails and the file keeps its content.
C21_NoOverwrite ==
    [][(/\ clone.pc = "refs"
        /\ <<<<102>>>> \in DOMAIN fs
        /\ fs[<<<<102>>>>].kind = "file"
        /\ fs[<<<<102>>>>].data # <<>>
        /\ clone'.pc \in {"done", "failed"}
        /\ clone'.kind = "pack"
        /\ clone.remote.mode # M_160000)
       => (/\ clone'.pc = "failed"
           /\ fs'[<<<<102>>>>] = fs[<<<<102>>>>])]_vars

\* The commit a clone wanted.
WantedCommit ==
    IF clone.headSHA = sha1hex(HeadCommit(clone.remote)) THEN HeadCommit(clone.remote)
    ELSE OtherCommit(clone.remote)

\* C22: when clone prints Cloning completed., every object the checked-out
\* commit and, recursively, its trees refer to (the commit of a gitlink
\* apart) is in the returned set and written to the store: no entry was
\* skipped because its subtree or blob was missing.
C22_ReferencedObjectsResolve ==
    (clone.pc = "done" /\ clone.remote.mode # M_160000) =>
        \A i \in 1..Len(ObjectsOf(clone.remote, WantedCommit)) :
            LET sha == sha1hex(ObjectsOf(clone.remote, WantedCommit)[i])
            IN  /\ sha \in DOMAIN clone.objects
                /\ LoosePath(sha) \in DOMAIN fs

\* C23: errors are never swallowed during pack decoding: when locating the
\* zlib stream of an object or inflating it fails, clone fails in
\* unpackPackfile, decodes no further object and writes no object and no
\* HEAD.
C23_DecodeErrorsPropagate ==
    (CloneRan /\ \E i \in 1..Len(clone.log) :
                    clone.log[i].outcome \in {"failed", "no zlib data"}) =>
        /\ clone.pc = "failed"
        /\ clone.reached = "unpackPackfile"
        /\ clone.log[Len(clone.log)].outcome \in {"failed", "no zlib data"}
        /\ StorePaths = {}
        /\ <<S_dotgit, S_HEAD>> \notin DOMAIN fs

\* C24: pack decode is byte-exact: in a pack of two blobs the first object is
\* read at byte 12 and the second at the byte right after the zlib stream of
\* the first, whatever the length of that stream, and both are returned.
C24_ByteExactConsumption ==
    Probed("unpackPackfile") =>
        LET first == BlobEntry(probe[1].input.first)
            second == BlobEntry(probe[1].input.second)
            out == probe[1].out
        IN  /\ out.err = "none"
            /\ Len(out.log) = 2
            /\ out.log[1].offset = 12
            /\ out.log[2].offset = 12 + Len(PackEntry(first))
            /\ DOMAIN out.objects
                   = {sha1hex(ObjectOf(S_blob, first.payload)),
                      sha1hex(ObjectOf(S_blob, second.payload))}

\* The integer whose one bits are at the given positions, below 2^31.
BitsValue(bits) ==
    LET v[k \in 0..31] ==
            IF k = 0 THEN 0
            ELSE v[k - 1] + (IF k - 1 \in bits THEN 2 ^ (k - 1) ELSE 0)
    IN  v[31]

C26_OffsetIncreases ==
    [][(/\ probe # <<>> /\ probe[1].fn = "while"
        /\ probe' # <<>> /\ probe'[1].input = probe[1].input
        /\ ~probe'[1].out.exited)
       => probe'[1].out.offset > probe[1].out.offset]_vars

====
